---- MODULE Spec2Model ----
(***************************************************************************)
(* Model of the IP-rule reconciliation engine of                           *)
(*   src/AutoShield for Azure: Smart IP Whitelisting and Firewall Sync     *)
(*   Engine/Translytical/AzFunc.py                                         *)
(*                                                                         *)
(* Text is modelled as a sequence of one-character strings, so that        *)
(* strip(), split(), replace(), "in" and the ipaddress conversions are     *)
(* computed character by character as Python computes them.  An IPv4       *)
(* address object is the tuple of its four octets (the 32-bit value in     *)
(* base 256), which keeps every intermediate value inside TLC's integers.  *)
(***************************************************************************)
EXTENDS Integers, Sequences, FiniteSets, TLC

(***************************************************************************)
(* Bounds of the model.                                                    *)
(***************************************************************************)
\* longest ipRules list of a request
MaxBatch == 2
\* number of outbound calls, over a whole run, that the remote may fail
MaxFaults == 1

(***************************************************************************)
(* Text helpers: Python str methods on character sequences.                *)
(***************************************************************************)
Digits == {"0", "1", "2", "3", "4", "5", "6", "7", "8", "9"}

DigitVal(c) ==
    CASE c = "0" -> 0 [] c = "1" -> 1 [] c = "2" -> 2 [] c = "3" -> 3
      [] c = "4" -> 4 [] c = "5" -> 5 [] c = "6" -> 6 [] c = "7" -> 7
      [] c = "8" -> 8 [] c = "9" -> 9

DigitChar(n) ==
    CASE n = 0 -> "0" [] n = 1 -> "1" [] n = 2 -> "2" [] n = 3 -> "3"
      [] n = 4 -> "4" [] n = 5 -> "5" [] n = 6 -> "6" [] n = 7 -> "7"
      [] n = 8 -> "8" [] n = 9 -> "9"

\* c in s
Contains(s, c) == \E i \in DOMAIN s : s[i] = c

\* s.strip()
RECURSIVE LStrip(_)
LStrip(s) == IF s # <<>> /\ Head(s) = " " THEN LStrip(Tail(s)) ELSE s

RECURSIVE RStrip(_)
RStrip(s) ==
    IF s # <<>> /\ s[Len(s)] = " " THEN RStrip(SubSeq(s, 1, Len(s) - 1)) ELSE s

Strip(s) == RStrip(LStrip(s))

\* s.split(c): the pieces of s between the occurrences of c
RECURSIVE SplitFrom(_, _, _, _)
SplitFrom(s, c, cur, acc) ==
    IF s = <<>> THEN Append(acc, cur)
    ELSE IF Head(s) = c THEN SplitFrom(Tail(s), c, <<>>, Append(acc, cur))
    ELSE SplitFrom(Tail(s), c, Append(cur, Head(s)), acc)

Split(s, c) == SplitFrom(s, c, <<>>, <<>>)

\* s.replace(a, b) for one-character a and b
Replace(s, a, b) == [i \in DOMAIN s |-> IF s[i] = a THEN b ELSE s[i]]

\* str(n) for a small natural number
DecStr(n) ==
    IF n < 10 THEN <<DigitChar(n)>>
    ELSE IF n < 100 THEN <<DigitChar(n \div 10), DigitChar(n % 10)>>
    ELSE <<DigitChar(n \div 100), DigitChar((n \div 10) % 10), DigitChar(n % 10)>>

\* x in xs, for a list xs
InList(x, xs) == \E i \in DOMAIN xs : xs[i] = x

(***************************************************************************)
(* ipaddress: IPv4Address and IPv4Network (CPython 3.11).                  *)
(* A failed conversion (ValueError) is the value AddrError.                *)
(***************************************************************************)
AddrError == <<>>

AllDigits(s) == s # <<>> /\ \A i \in DOMAIN s : s[i] \in Digits

\* int(s), saturating at cap, for a digit string s
RECURSIVE IntUpTo(_, _, _)
IntUpTo(s, acc, cap) ==
    IF s = <<>> THEN acc
    ELSE LET v == acc * 10 + DigitVal(Head(s))
         IN  IntUpTo(Tail(s), IF v > cap THEN cap ELSE v, cap)

\* IPv4Address._parse_octet: decimal, at most 3 characters, no leading zero,
\* at most 255; -1 stands for the ValueError
ParseOctet(s) ==
    IF ~AllDigits(s) \/ Len(s) > 3 THEN -1
    ELSE IF Len(s) > 1 /\ s[1] = "0" THEN -1
    ELSE LET v == IntUpTo(s, 0, 256) IN IF v > 255 THEN -1 ELSE v

\* ipaddress.ip_address(s), IPv4 only
ip_address(s) ==
    LET parts == Split(s, ".")
    IN  IF Len(parts) # 4 THEN AddrError
        ELSE LET o == [i \in 1..4 |-> ParseOctet(parts[i])]
             IN  IF \E i \in 1..4 : o[i] = -1 THEN AddrError ELSE o

\* str(IPv4Address)
StrAddr(a) ==
    DecStr(a[1]) \o <<".">> \o DecStr(a[2]) \o <<".">> \o DecStr(a[3])
        \o <<".">> \o DecStr(a[4])

\* IPv4Address.__le__: comparison of the 32-bit values
AddrLE(a, b) ==
    \/ a = b
    \/ \E i \in 1..4 : a[i] < b[i] /\ \A j \in 1..(i - 1) : a[j] = b[j]

\* IPv4Address.__add__(1): AddrError (AddressValueError, a ValueError) past
\* 255.255.255.255
AddrSucc(a) ==
    IF a[4] < 255 THEN <<a[1], a[2], a[3], a[4] + 1>>
    ELSE IF a[3] < 255 THEN <<a[1], a[2], a[3] + 1, 0>>
    ELSE IF a[2] < 255 THEN <<a[1], a[2] + 1, 0, 0>>
    ELSE IF a[1] < 255 THEN <<a[1] + 1, 0, 0, 0>>
    ELSE AddrError

Pow2(n) ==
    CASE n = 0 -> 1 [] n = 1 -> 2 [] n = 2 -> 4 [] n = 3 -> 8 [] n = 4 -> 16
      [] n = 5 -> 32 [] n = 6 -> 64 [] n = 7 -> 128 [] n = 8 -> 256

\* the octets counted from 0 instead of 1
HostBits_from_zero(p, i) ==
    LET netbits == p - 8 * i
    IN  IF netbits >= 8 THEN 0 ELSE IF netbits <= 0 THEN 8 ELSE 8 - netbits

\* number of host bits of octet i under prefix length p
HostBits(p, i) ==
    LET netbits == p - 8 * (i - 1)
    IN  IF netbits >= 8 THEN 0 ELSE IF netbits <= 0 THEN 8 ELSE 8 - netbits

\* ipaddress.ip_network(s, strict=False) for "address/prefixlen":
\* [err, network_address, broadcast_address].  The netmask and hostmask
\* spellings of the part after "/" are not among the modelled inputs.
ip_network(s) ==
    LET parts == Split(s, "/")
        bad   == [err |-> TRUE, network_address |-> AddrError,
                  broadcast_address |-> AddrError]
    IN  IF Len(parts) # 2 THEN bad
        ELSE LET a == ip_address(parts[1])
                 p == IF AllDigits(parts[2]) THEN IntUpTo(parts[2], 0, 33) ELSE 33
             IN  IF a = AddrError \/ p > 32 THEN bad
                 ELSE [err |-> FALSE,
                       network_address |->
                           [i \in 1..4 |-> a[i] - (a[i] % Pow2(HostBits(p, i)))],
                       broadcast_address |->
                           [i \in 1..4 |-> a[i] - (a[i] % Pow2(HostBits(p, i)))
                                             + Pow2(HostBits(p, i)) - 1]]

(***************************************************************************)
(* parse_ip_range (AzFunc.py 25-36): [raised, start, end], the endpoints   *)
(* as text.  raised stands for the ValueError that leaves the function.    *)
(***************************************************************************)
Raised == [raised |-> TRUE, start |-> <<>>, end |-> <<>>]

parse_ip_range(ip_str) ==
    LET s == Strip(ip_str)
    IN  IF Contains(s, "/")
        THEN LET net == ip_network(s)
             IN  IF net.err THEN Raised
                 ELSE [raised |-> FALSE,
                       start  |-> StrAddr(net.network_address),
                       end    |-> StrAddr(net.broadcast_address)]
        ELSE IF Contains(s, "-")
        THEN LET parts == Split(s, "-")
             IN  IF Len(parts) # 2 THEN Raised
                 ELSE [raised |-> FALSE,
                       start  |-> Strip(parts[1]),
                       end    |-> Strip(parts[2])]
        ELSE [raised |-> FALSE, start |-> s, end |-> s]

(***************************************************************************)
(* expand_ip_range (AzFunc.py 100-120): [raised, ips].                     *)
(***************************************************************************)
\* the while loop of lines 113-115; a ValueError (here: start_ip += 1 past
\* the last address) is caught at line 117 and the result is []
RECURSIVE ExpandLoop(_, _, _)
ExpandLoop(start_ip, end_ip, ips) ==
    IF AddrLE(start_ip, end_ip)
    THEN LET next == AddrSucc(start_ip)
         IN  IF next = AddrError THEN <<>>
             ELSE ExpandLoop(next, end_ip, Append(ips, StrAddr(start_ip)))
    ELSE ips

expand_ip_range(ip_str) ==
    LET s == Strip(ip_str)
    IN  IF Contains(s, "/") THEN [raised |-> FALSE, ips |-> <<s>>]
        ELSE IF Contains(s, "-")
        THEN LET parts == Split(s, "-")
             IN  IF Len(parts) # 2 THEN [raised |-> TRUE, ips |-> <<>>]
                 ELSE LET start_ip == ip_address(Strip(parts[1]))
                          end_ip   == ip_address(Strip(parts[2]))
                      IN  IF start_ip = AddrError \/ end_ip = AddrError
                          THEN [raised |-> FALSE, ips |-> <<>>]
                          ELSE [raised |-> FALSE,
                                ips |-> ExpandLoop(start_ip, end_ip, <<>>)]
        ELSE [raised |-> FALSE, ips |-> <<s>>]

(***************************************************************************)
(* Requests.  serviceType and action are whole strings; .lower() is the    *)
(* table of the spellings the model sends.                                 *)
(***************************************************************************)
Lower(s) ==
    CASE s = "Storage" -> "storage"
      [] s = "Remove"  -> "remove"
      [] OTHER         -> s

ServiceTypes == {"sql", "Storage", "blob"}
Actions      == {"add", "Remove", "purge"}

Addr1   == StrAddr(<<10, 0, 0, 1>>)
Addr2   == StrAddr(<<10, 0, 0, 2>>)
Addr3   == StrAddr(<<10, 0, 0, 3>>)
Addr9   == StrAddr(<<10, 0, 0, 9>>)
AddrTop == StrAddr(<<255, 255, 255, 255>>)

TokSingle   == Addr1
TokCidr32   == Addr1 \o <<"/", "3", "2">>
TokCidrHost == StrAddr(<<10, 0, 0, 5>>) \o <<"/", "2", "4">>
TokRange    == <<" ">> \o Addr1 \o <<" ", "-", " ">> \o Addr3 \o <<" ">>
TokTopRange == StrAddr(<<255, 255, 255, 254>>) \o <<"-">> \o AddrTop
TokBadCidr  == StrAddr(<<10, 0, 0, 0>>) \o <<"/", "3", "3">>

Tokens ==
    {TokSingle, TokCidr32, TokCidrHost, TokRange, TokTopRange, TokBadCidr}

Batches == UNION {[1..n -> Tokens] : n \in 0..MaxBatch}

Procs == {1, 2}

VARIABLES
    sqlRules,        \* remote range backend: list of firewall rules
    aclRules,        \* remote list backend: networkAcls of the account
    req,             \* req[p]: the JSON body of invocation p
    pc,              \* pc[p]: position of invocation p
    existing_rules,  \* existing_rules[p]: rules fetched at line 51
    acls,            \* acls[p]: networkAcls fetched at line 93
    idx,             \* idx[p]: position of the loop of line 53
    results,         \* results[p]: the results list
    calls,           \* calls[p]: outbound calls issued so far, in order
    response,        \* response[p]: the HttpResponse returned
    before,          \* before[p]: remote state when invocation p began
    faults           \* outbound calls failed so far

vars ==
    <<sqlRules, aclRules, req, pc, existing_rules, acls, idx, results, calls,
      response, before, faults>>

(***************************************************************************)
(* Values exchanged with the remote and with the caller.                   *)
(***************************************************************************)
\* a name taken from the number of rules on the remote instead of the interval
rule_name_by_count(start_ip, end_ip) ==
    <<"r", "u", "l", "e", "_">> \o DecStr(Len(sqlRules))

\* line 58
rule_name(start_ip, end_ip) ==
    <<"r", "u", "l", "e", "_">> \o Replace(start_ip, ".", "_") \o <<"_">>
        \o Replace(end_ip, ".", "_")

Rule(n, s, e) == [name |-> n, startIpAddress |-> s, endIpAddress |-> e]

Entry(v) == [action |-> "Allow", value |-> v]

\* line 93: the default of .get("networkAcls", ...)
DefaultAcls == [ipRules |-> <<>>, defaultAction |-> "Deny"]

NoAcls == [ipRules |-> <<>>, defaultAction |-> "-"]

Call(op, item, name, start, end, body) ==
    [op |-> op, item |-> item, name |-> name, start |-> start, end |-> end,
     body |-> body]

TokenCall  == Call("TOKEN", 0, <<>>, <<>>, <<>>, NoAcls)
GetCall    == Call("GET", 0, <<>>, <<>>, <<>>, NoAcls)
PutCall(i, n, s, e) == Call("PUT", i, n, s, e, NoAcls)
DeleteCall(i, n)    == Call("DELETE", i, n, <<>>, <<>>, NoAcls)
PatchCall(body)     == Call("PATCH", 0, <<>>, <<>>, <<>>, body)

\* entries of the results list: lines 62/72/79, lines 49/81/134, line 138
ItemResult(ip, status) == [kind |-> "item", ip |-> ip, status |-> status, error |-> ""]
ErrorResult(msg)       == [kind |-> "error", ip |-> <<>>, status |-> 0, error |-> msg]
AggregateResult(status) == [kind |-> "aggregate", ip |-> <<>>, status |-> status, error |-> ""]

NoResponse == [status_code |-> 0, results |-> <<>>, error |-> ""]
\* lines 167-171, 161-165, 175-179
Ok200(res)  == [status_code |-> 200, results |-> res, error |-> ""]
Bad400      == [status_code |-> 400, results |-> <<>>,
                error |-> "Invalid serviceType. Use 'sql' or 'storage'."]
Error500    == [status_code |-> 500, results |-> <<>>, error |-> "exception"]

(***************************************************************************)
(* Initial states: the remote resource and the requests of the run.        *)
(* Invocation 2 repeats the service and the ipRules of invocation 1, with  *)
(* a valid action of its own.                                              *)
(***************************************************************************)
\* rules found on the remote: two named as line 58 names them, and one of
\* another name (and spacing) for the interval of RuleConv
NameOf(s, e) ==
    <<"r", "u", "l", "e", "_">> \o Replace(s, ".", "_") \o <<"_">>
        \o Replace(e, ".", "_")

RuleConv   == Rule(NameOf(Addr1, Addr1), Addr1, Addr1)
RuleLegacy == Rule(<<"o", "l", "d">>, <<" ">> \o Addr1, Addr1)
RuleRange  == Rule(NameOf(Addr1, Addr3), Addr1, Addr3)

InitialSqlRules ==
    {<<>>, <<RuleRange>>, <<RuleConv, RuleLegacy>>, <<RuleRange, RuleConv>>}

InitialAclRules ==
    {<<>>, <<Entry(Addr1)>>, <<Entry(Addr2), Entry(TokCidr32), Entry(Addr9)>>}

Init ==
    /\ \E st \in ServiceTypes, b \in Batches, a1 \in Actions,
          a2 \in {"add", "Remove"} :
           req = [p \in Procs |->
                    [serviceType |-> st,
                     action      |-> IF p = 1 THEN a1 ELSE a2,
                     ipRules     |-> b]]
    /\ sqlRules \in InitialSqlRules
    /\ Lower(req[1].serviceType) # "sql" => sqlRules = <<>>
    /\ \E l \in InitialAclRules :
           aclRules = [ipRules |-> l, defaultAction |-> "Allow"]
    /\ Lower(req[1].serviceType) # "storage" => aclRules.ipRules = <<>>
    /\ pc = [p \in Procs |-> "idle"]
    /\ existing_rules = [p \in Procs |-> <<>>]
    /\ acls = [p \in Procs |-> NoAcls]
    /\ idx = [p \in Procs |-> 0]
    /\ results = [p \in Procs |-> <<>>]
    /\ calls = [p \in Procs |-> <<>>]
    /\ response = [p \in Procs |-> NoResponse]
    /\ before = [p \in Procs |-> [sql |-> <<>>, acl |-> NoAcls]]
    /\ faults = 0

\* the remote may fail an outbound call while the fault budget lasts
MayFail == faults < MaxFaults

\* return at lines 167-171 / 161-165 / 175-179
Return(p, r) ==
    /\ pc' = [pc EXCEPT ![p] = "done"]
    /\ response' = [response EXCEPT ![p] = r]

(***************************************************************************)
(* HttpTriggerIPFunc, lines 143-165: read the request, acquire the token,  *)
(* dispatch on serviceType.                                                *)
(***************************************************************************)
Trigger(p) ==
    /\ pc[p] = "idle"
    /\ before' = [before EXCEPT ![p] = [sql |-> sqlRules, acl |-> aclRules]]
    /\ calls' = [calls EXCEPT ![p] = Append(@, TokenCall)]
    /\ \/ \* get_access_token raises: lines 173-179
          /\ MayFail
          /\ faults' = faults + 1
          /\ Return(p, Error500)
       \/ /\ UNCHANGED faults
          /\ LET service_type == Lower(req[p].serviceType)
             IN  IF service_type = "sql"
                 THEN pc' = [pc EXCEPT ![p] = "sql_get"] /\ UNCHANGED response
                 ELSE IF service_type = "storage"
                 THEN pc' = [pc EXCEPT ![p] = "storage_get"] /\ UNCHANGED response
                 ELSE Return(p, Bad400)
    /\ UNCHANGED <<sqlRules, aclRules, req, existing_rules, acls, idx, results>>

\* invocations served one after the other
HttpTriggerIPFunc(p) ==
    /\ \A q \in Procs : q < p => pc[q] = "done"
    /\ Trigger(p)

\* invocations served as they arrive: the function host holds no lock, and
\* an invocation may begin while another is between its GET and its PATCH
HttpTriggerOverlapping(p) == Trigger(p)

(***************************************************************************)
(* manage_sql_firewall, lines 40-83.                                       *)
(***************************************************************************)
\* the remote's PUT by name: replace the rule of that name, or add it
Upsert(rules, n, s, e) ==
    IF \E k \in DOMAIN rules : rules[k].name = n
    THEN [k \in DOMAIN rules |->
            IF rules[k].name = n THEN Rule(n, s, e) ELSE rules[k]]
    ELSE Append(rules, Rule(n, s, e))

\* the remote's DELETE by name, for the set of names ns
DeleteNamed(rules, ns) == SelectSeq(rules, LAMBDA r : r.name \notin ns)

\* a match on startIpAddress alone
matching_rules_start_only(existing, start_ip, end_ip) ==
    SelectSeq(existing, LAMBDA r : Strip(r.startIpAddress) = start_ip)

\* lines 65-69
matching_rules(existing, start_ip, end_ip) ==
    SelectSeq(existing,
              LAMBDA r : /\ Strip(r.startIpAddress) = start_ip
                         /\ Strip(r.endIpAddress) = end_ip)

\* line 76: rule["name"].split("/")[-1]
LastSegment(n) == LET parts == Split(n, "/") IN parts[Len(parts)]

\* lines 46-51: fetch the current rules
SqlGet(p) ==
    /\ pc[p] = "sql_get"
    /\ calls' = [calls EXCEPT ![p] = Append(@, GetCall)]
    /\ \/ \* status_code # 200: line 49
          /\ MayFail
          /\ faults' = faults + 1
          /\ results' = [results EXCEPT ![p] =
                            <<ErrorResult("Failed to get existing rules")>>]
          /\ Return(p, Ok200(results'[p]))
          /\ UNCHANGED <<existing_rules, idx>>
       \/ /\ UNCHANGED <<faults, results>>
          /\ existing_rules' = [existing_rules EXCEPT ![p] = sqlRules]
          /\ IF req[p].ipRules = <<>>
             THEN Return(p, Ok200(<<>>)) /\ UNCHANGED idx
             ELSE /\ idx' = [idx EXCEPT ![p] = 1]
                  /\ pc' = [pc EXCEPT ![p] = "sql_loop"]
                  /\ UNCHANGED response
    /\ UNCHANGED <<sqlRules, aclRules, req, acls, before>>

\* line 53 and line 83: next item, or return the results
SqlAdvance(p) ==
    IF idx[p] = Len(req[p].ipRules)
    THEN Return(p, Ok200(results'[p])) /\ UNCHANGED idx
    ELSE /\ idx' = [idx EXCEPT ![p] = @ + 1]
         /\ UNCHANGED <<pc, response>>

\* lines 57-62: one PUT
SqlAdd(p, ip, start_ip, end_ip) ==
    LET name == rule_name(start_ip, end_ip)
    IN  /\ calls' = [calls EXCEPT ![p] =
                        Append(@, PutCall(idx[p], name, start_ip, end_ip))]
        /\ \/ /\ sqlRules' = Upsert(sqlRules, name, start_ip, end_ip)
              /\ results' = [results EXCEPT ![p] = Append(@, ItemResult(ip, 200))]
              /\ UNCHANGED faults
           \/ /\ MayFail
              /\ faults' = faults + 1
              /\ results' = [results EXCEPT ![p] = Append(@, ItemResult(ip, 500))]
              /\ UNCHANGED sqlRules

\* lines 64-79: one DELETE per matching rule, or the 404 entry
SqlRemove(p, ip, start_ip, end_ip) ==
    LET matching == matching_rules(existing_rules[p], start_ip, end_ip)
        n        == Len(matching)
    IN  IF n = 0
        THEN /\ results' = [results EXCEPT ![p] = Append(@, ItemResult(ip, 404))]
             /\ UNCHANGED <<sqlRules, calls, faults>>
        ELSE \E failed \in SUBSET (1..n) :
               /\ Cardinality(failed) <= MaxFaults - faults
               /\ faults' = faults + Cardinality(failed)
               /\ calls' = [calls EXCEPT ![p] = @ \o
                     [k \in 1..n |-> DeleteCall(idx[p], LastSegment(matching[k].name))]]
               /\ results' = [results EXCEPT ![p] = @ \o
                     [k \in 1..n |->
                        ItemResult(ip, IF k \in failed THEN 500 ELSE 200)]]
               /\ sqlRules' = DeleteNamed(sqlRules,
                     {LastSegment(matching[k].name) : k \in (1..n) \ failed})

\* lines 53-83: one pass of the loop body
SqlItem(p) ==
    /\ pc[p] = "sql_loop"
    /\ LET ip     == req[p].ipRules[idx[p]]
           action == Lower(req[p].action)
           parsed == parse_ip_range(ip)
       IN  IF parsed.raised
           THEN \* the ValueError leaves manage_sql_firewall: lines 173-179
                /\ Return(p, Error500)
                /\ UNCHANGED <<sqlRules, calls, results, idx, faults>>
           ELSE /\ LET start_ip == Strip(parsed.start)
                       end_ip   == Strip(parsed.end)
                   IN  IF action = "add" THEN SqlAdd(p, ip, start_ip, end_ip)
                       ELSE IF action = "remove" THEN SqlRemove(p, ip, start_ip, end_ip)
                       ELSE /\ results' = [results EXCEPT ![p] =
                                   Append(@, ErrorResult("Invalid action"))]
                            /\ UNCHANGED <<sqlRules, calls, faults>>
                /\ SqlAdvance(p)
    /\ UNCHANGED <<aclRules, req, existing_rules, acls, before>>

(***************************************************************************)
(* manage_storage_firewall, lines 87-138.                                  *)
(***************************************************************************)
\* lines 122-125: [raised, ips] for the whole ipRules list
RECURSIVE expanded_ips(_)
expanded_ips(ip_rules) ==
    IF ip_rules = <<>> THEN [raised |-> FALSE, ips |-> <<>>]
    ELSE LET h == expand_ip_range(Head(ip_rules))
             t == expanded_ips(Tail(ip_rules))
         IN  [raised |-> h.raised \/ t.raised, ips |-> h.ips \o t.ips]

\* line 98
Values(ipRules) == [k \in DOMAIN ipRules |-> ipRules[k].value]

\* a loop that starts at the second desired value
AddRules_skip_first(ipRules, ips, existing) ==
    LET rest == IF ips = <<>> THEN <<>> ELSE Tail(ips)
        new  == SelectSeq(rest, LAMBDA v : ~InList(v, existing))
    IN  ipRules \o [k \in DOMAIN new |-> Entry(new[k])]

\* lines 128-130: existing is the list of line 98, not updated by the loop
RECURSIVE AddRules(_, _, _)
AddRules(ipRules, ips, existing) ==
    IF ips = <<>> THEN ipRules
    ELSE AddRules(IF InList(Head(ips), existing) THEN ipRules
                  ELSE Append(ipRules, Entry(Head(ips))),
                  Tail(ips), existing)

\* a filter with the test inverted: it keeps the entries it should drop
RemoveRules_inverted(ipRules, ips) ==
    SelectSeq(ipRules, LAMBDA r : InList(r.value, ips))

\* a filter that drops only the entries equal to the first desired value
RemoveRules_first_only(ipRules, ips) ==
    IF ips = <<>> THEN ipRules
    ELSE SelectSeq(ipRules, LAMBDA r : r.value # Head(ips))

\* line 132
RemoveRules(ipRules, ips) == SelectSeq(ipRules, LAMBDA r : ~InList(r.value, ips))

\* lines 91-98: fetch the account.  A failed GET either raises (no JSON
\* body) or carries an error body without "properties", whose networkAcls
\* is the default of line 93
StorageGet(p) ==
    /\ pc[p] = "storage_get"
    /\ calls' = [calls EXCEPT ![p] = Append(@, GetCall)]
    /\ \/ /\ acls' = [acls EXCEPT ![p] = aclRules]
          /\ pc' = [pc EXCEPT ![p] = "storage_patch"]
          /\ UNCHANGED <<faults, response>>
       \/ /\ MayFail
          /\ faults' = faults + 1
          /\ acls' = [acls EXCEPT ![p] = DefaultAcls]
          /\ pc' = [pc EXCEPT ![p] = "storage_patch"]
          /\ UNCHANGED response
       \/ /\ MayFail
          /\ faults' = faults + 1
          /\ Return(p, Error500)
          /\ UNCHANGED acls
    /\ UNCHANGED <<sqlRules, aclRules, req, existing_rules, idx, results, before>>

\* lines 122-138: build the new list and PATCH it
StoragePatch(p) ==
    /\ pc[p] = "storage_patch"
    /\ LET action   == Lower(req[p].action)
           expanded == expanded_ips(req[p].ipRules)
           existing == Values(acls[p].ipRules)
       IN  IF expanded.raised
           THEN /\ Return(p, Error500)
                /\ UNCHANGED <<aclRules, calls, results, faults>>
           ELSE IF action \notin {"add", "remove"}
           THEN /\ results' = [results EXCEPT ![p] = <<ErrorResult("Invalid action")>>]
                /\ Return(p, Ok200(results'[p]))
                /\ UNCHANGED <<aclRules, calls, faults>>
           ELSE LET new  == IF action = "add"
                            THEN AddRules(acls[p].ipRules, expanded.ips, existing)
                            ELSE RemoveRules(acls[p].ipRules, expanded.ips)
                    body == [acls[p] EXCEPT !.ipRules = new]
                IN  /\ calls' = [calls EXCEPT ![p] = Append(@, PatchCall(body))]
                    /\ \/ /\ aclRules' = body
                          /\ results' = [results EXCEPT ![p] = <<AggregateResult(200)>>]
                          /\ UNCHANGED faults
                       \/ /\ MayFail
                          /\ faults' = faults + 1
                          /\ results' = [results EXCEPT ![p] = <<AggregateResult(500)>>]
                          /\ UNCHANGED aclRules
                    /\ Return(p, Ok200(results'[p]))
    /\ UNCHANGED <<sqlRules, req, existing_rules, acls, idx, before>>

Next ==
    \E p \in Procs :
        \/ HttpTriggerIPFunc(p)
        \/ SqlGet(p)
        \/ SqlItem(p)
        \/ StorageGet(p)
        \/ StoragePatch(p)

Spec == Init /\ [][Next]_vars

(***************************************************************************)
(* Two overlapping list-backend Add invocations on one storage account,    *)
(* each with ipRules of its own.                                           *)
(***************************************************************************)
ConcurrentTokens == {TokCidr32, TokRange}

ConcurrentBatches == UNION {[1..n -> ConcurrentTokens] : n \in 1..MaxBatch}

InitConcurrent ==
    /\ \E b1 \in ConcurrentBatches, b2 \in ConcurrentBatches :
           req = [p \in Procs |->
                    [serviceType |-> "storage",
                     action      |-> "add",
                     ipRules     |-> IF p = 1 THEN b1 ELSE b2]]
    /\ sqlRules = <<>>
    /\ \E l \in InitialAclRules :
           aclRules = [ipRules |-> l, defaultAction |-> "Allow"]
    /\ pc = [p \in Procs |-> "idle"]
    /\ existing_rules = [p \in Procs |-> <<>>]
    /\ acls = [p \in Procs |-> NoAcls]
    /\ idx = [p \in Procs |-> 0]
    /\ results = [p \in Procs |-> <<>>]
    /\ calls = [p \in Procs |-> <<>>]
    /\ response = [p \in Procs |-> NoResponse]
    /\ before = [p \in Procs |-> [sql |-> <<>>, acl |-> NoAcls]]
    /\ faults = 0

NextConcurrent ==
    \E p \in Procs :
        \/ HttpTriggerOverlapping(p)
        \/ StorageGet(p)
        \/ StoragePatch(p)

SpecConcurrent == InitConcurrent /\ [][NextConcurrent]_vars

(***************************************************************************)
(* Range-backend invocations of one CIDR token each: every prefix length   *)
(* over a few addresses, host bits set or not.                             *)
(***************************************************************************)
CidrAddrs ==
    {<<10, 0, 0, 0>>, <<10, 0, 0, 5>>, <<172, 16, 130, 1>>, <<192, 168, 77, 200>>,
     <<255, 255, 255, 255>>}

CidrTokens ==
    {StrAddr(a) \o <<"/">> \o DecStr(n) : a \in CidrAddrs, n \in 0..32}

InitParse ==
    /\ \E t \in CidrTokens, a2 \in {"add", "Remove"} :
           req = [p \in Procs |->
                    [serviceType |-> "sql",
                     action      |-> IF p = 1 THEN "add" ELSE a2,
                     ipRules     |-> <<t>>]]
    /\ sqlRules = <<>>
    /\ aclRules = [ipRules |-> <<>>, defaultAction |-> "Allow"]
    /\ pc = [p \in Procs |-> "idle"]
    /\ existing_rules = [p \in Procs |-> <<>>]
    /\ acls = [p \in Procs |-> NoAcls]
    /\ idx = [p \in Procs |-> 0]
    /\ results = [p \in Procs |-> <<>>]
    /\ calls = [p \in Procs |-> <<>>]
    /\ response = [p \in Procs |-> NoResponse]
    /\ before = [p \in Procs |-> [sql |-> <<>>, acl |-> NoAcls]]
    /\ faults = 0

NextParse ==
    \E p \in Procs :
        \/ HttpTriggerIPFunc(p)
        \/ SqlGet(p)
        \/ SqlItem(p)

SpecParse == InitParse /\ [][NextParse]_vars

(***************************************************************************)
(* Vocabulary of the properties.                                           *)
(***************************************************************************)
ServiceOf(p) == Lower(req[p].serviceType)
ActionOf(p)  == Lower(req[p].action)
Done(p)      == pc[p] = "done"

Ops(p) == {calls[p][k].op : k \in DOMAIN calls[p]}

\* the calls of invocation p with operation op, in order
CallsOf(p, op) == SelectSeq(calls[p], LAMBDA c : c.op = op)

\* no entry of the results list is an error entry
NoErrorEntry(res) == \A k \in DOMAIN res : res[k].kind # "error"

NoDuplicates(xs) == \A i \in DOMAIN xs : \A j \in DOMAIN xs : xs[i] = xs[j] => i = j

Members(xs) == {xs[k] : k \in DOMAIN xs}

(***************************************************************************)
(* C1.  A request whose serviceType is neither sql nor storage returns 400 *)
(* and issues no outbound call at all, the token acquisition included.     *)
(* The code acquires the token (line 154) before it looks at serviceType.  *)
(* Stated for the runs in which no outbound call fails.                    *)
(***************************************************************************)
C1_InvalidServiceNoOutboundCall ==
    \A p \in Procs :
        (ServiceOf(p) \notin {"sql", "storage"} /\ faults = 0)
            => /\ calls[p] = <<>>
               /\ Done(p) => response[p].status_code = 400

(***************************************************************************)
(* C2.  A request to a valid backend whose action is neither add nor       *)
(* remove is rejected with an error result before any network call: no     *)
(* GET, PUT, DELETE or PATCH is issued.  The code issues the GET of line   *)
(* 47 / 92 before it looks at the action.  Stated for the runs in which no *)
(* outbound call fails.                                                    *)
(***************************************************************************)
C2_InvalidActionNoNetworkCall ==
    \A p \in Procs :
        (/\ ServiceOf(p) \in {"sql", "storage"}
         /\ ActionOf(p) \notin {"add", "remove"}
         /\ faults = 0)
            => /\ Ops(p) \cap {"GET", "PUT", "DELETE", "PATCH"} = {}
               /\ Done(p) => \E k \in DOMAIN response[p].results :
                                 response[p].results[k].kind = "error"

(***************************************************************************)
(* C3.  Range-backend Add is idempotent.  When Add has run twice with the  *)
(* same ipRules, both runs sent their PUTs to the same rule names, in the  *)
(* same order; and if every PUT that succeeded in the second run had also  *)
(* succeeded in the first, the remote rules after the second run are the   *)
(* rules the first run left.                                               *)
(***************************************************************************)
PutNames(p) ==
    LET puts == CallsOf(p, "PUT") IN [k \in DOMAIN puts |-> puts[k].name]

AddedTwice ==
    /\ \A p \in Procs :
          /\ ServiceOf(p) = "sql"
          /\ ActionOf(p) = "add"
          /\ Done(p)
          /\ response[p].status_code = 200
          /\ NoErrorEntry(results[p])
    /\ req[1].ipRules = req[2].ipRules

C3_AddIdempotent ==
    AddedTwice
        => /\ PutNames(1) = PutNames(2)
           /\ (\A i \in DOMAIN results[2] :
                   results[2][i].status = 200 => results[1][i].status = 200)
                => sqlRules = before[2].sql

\* Add ran twice, every PUT succeeded, and the first run created a rule
C3_Witness ==
    /\ AddedTwice
    /\ req[1].ipRules # <<>>
    /\ \A p \in Procs : \A i \in DOMAIN results[p] : results[p][i].status = 200
    /\ Len(before[2].sql) > Len(before[1].sql)

(***************************************************************************)
(* C4.  In a range-backend Remove batch, the pass over an input whose      *)
(* (start, end) matches no fetched rule appends the 404 entry for that     *)
(* input, issues no call, changes nothing on the remote, raises nothing,   *)
(* and leaves the loop to go on with the next input (or to return the      *)
(* results after the last one).                                            *)
(***************************************************************************)
NoFetchedRuleMatches(p) ==
    LET parsed == parse_ip_range(req[p].ipRules[idx[p]])
    IN  /\ ~parsed.raised
        /\ \A k \in DOMAIN existing_rules[p] :
              ~(/\ Strip(existing_rules[p][k].startIpAddress) = Strip(parsed.start)
                /\ Strip(existing_rules[p][k].endIpAddress) = Strip(parsed.end))

Values0 == Members(Values(before[1].acl.ipRules))

AddThenRemove ==
    /\ \A p \in Procs :
          /\ ServiceOf(p) = "storage"
          /\ Done(p)
          /\ results[p] = <<AggregateResult(200)>>
          /\ acls[p] = before[p].acl
    /\ ActionOf(1) = "add"
    /\ ActionOf(2) = "remove"
    /\ req[1].ipRules = req[2].ipRules

C6_AddWritesUnionWithoutDuplicates ==
    \A p \in Procs :
        (/\ ServiceOf(p) = "storage"
         /\ ActionOf(p) = "add"
         /\ CallsOf(p, "PATCH") # <<>>
         /\ NoDuplicates(Values(acls[p].ipRules)))
            => LET written == Values(CallsOf(p, "PATCH")[1].body.ipRules)
               IN  /\ NoDuplicates(written)
                   /\ Members(written) =
                          Members(Values(acls[p].ipRules))
                              \cup Members(expanded_ips(req[p].ipRules).ips)

(***************************************************************************)
(* C7.  List-backend Remove writes exactly the fetched entries whose value *)
(* is not among the expanded inputs, in their original order.              *)
(***************************************************************************)
\* the entries of list f at the positions of set keep, in order
Kept(f, keep) ==
    [j \in 1..Cardinality(keep) |->
        f[CHOOSE k \in keep : Cardinality({m \in keep : m <= k}) = j]]

C7_RemoveWritesTheOthers ==
    \A p \in Procs :
        (/\ ServiceOf(p) = "storage"
         /\ ActionOf(p) = "remove"
         /\ CallsOf(p, "PATCH") # <<>>)
            => LET fetched == acls[p].ipRules
                   desired == Members(expanded_ips(req[p].ipRules).ips)
                   keep    == {k \in DOMAIN fetched : fetched[k].value \notin desired}
               IN  CallsOf(p, "PATCH")[1].body.ipRules = Kept(fetched, keep)

\* a Remove that dropped some fetched entries and kept others
C7_Witness ==
    \E p \in Procs :
        /\ ServiceOf(p) = "storage" /\ ActionOf(p) = "remove" /\ Done(p)
        /\ CallsOf(p, "PATCH") # <<>>
        /\ LET written == CallsOf(p, "PATCH")[1].body.ipRules
           IN  /\ written # <<>>
               /\ Len(written) < Len(acls[p].ipRules)
               /\ written[1] # acls[p].ipRules[1]

(***************************************************************************)
(* C8.  For the list backend, a range token a-b of valid addresses with    *)
(* a <= b expands to exactly the addresses a, a+1, ..., b, and a CIDR      *)
(* token or a single address to the one (trimmed) value.  The loop of      *)
(* lines 113-115 steps past b before it stops; when b is 255.255.255.255   *)
(* that step raises, the except clause of line 117 catches it, and the     *)
(* range expands to nothing.                                               *)
(***************************************************************************)
\* the address k places after a (k small), by base-256 addition
AddrPlus(a, k) ==
    LET v4 == a[4] + k
        v3 == a[3] + (v4 \div 256)
        v2 == a[2] + (v3 \div 256)
        v1 == a[1] + (v2 \div 256)
    IN  <<v1, v2 % 256, v3 % 256, v4 % 256>>

\* number of addresses from a to b, a <= b, for the ranges of the model
AddrCount(a, b) ==
    (((b[1] - a[1]) * 256 + (b[2] - a[2])) * 256 + (b[3] - a[3])) * 256
        + (b[4] - a[4]) + 1

ExpectedExpansion(token) ==
    LET s == Strip(token)
    IN  IF Contains(s, "/") \/ ~Contains(s, "-") THEN <<s>>
        ELSE LET parts == Split(s, "-")
                 a     == ip_address(Strip(parts[1]))
                 b     == ip_address(Strip(parts[2]))
             IN  [k \in 1..AddrCount(a, b) |-> StrAddr(AddrPlus(a, k - 1))]

\* a CIDR token, a single address, or a range a-b of valid addresses, a <= b
WellFormedForList(token) ==
    LET s     == Strip(token)
        parts == Split(s, "-")
    IN  \/ Contains(s, "/")
        \/ ~Contains(s, "-")
        \/ /\ Len(parts) = 2
           /\ ip_address(Strip(parts[1])) # AddrError
           /\ ip_address(Strip(parts[2])) # AddrError
           /\ AddrLE(ip_address(Strip(parts[1])), ip_address(Strip(parts[2])))

C8_ExpansionIsTheClosedInterval ==
    \A p \in Procs :
        (ServiceOf(p) = "storage" /\ CallsOf(p, "PATCH") # <<>>)
            => \A i \in DOMAIN req[p].ipRules :
                  WellFormedForList(req[p].ipRules[i])
                      => expand_ip_range(req[p].ipRules[i]).ips
                             = ExpectedExpansion(req[p].ipRules[i])

(***************************************************************************)
(* C9.  The results returned to the caller hold one entry per input, in    *)
(* input order, for the range backend (Add and Remove, whatever rules were *)
(* fetched), and one aggregate entry for the list backend.  Remove appends *)
(* one entry per matching rule (line 79), so an input that matches two     *)
(* fetched rules has two entries.                                          *)
(***************************************************************************)
C9_OneResultPerInput ==
    \A p \in Procs :
        (/\ Done(p)
         /\ response[p].status_code = 200
         /\ ActionOf(p) \in {"add", "remove"}
         /\ NoErrorEntry(response[p].results))
            => LET res == response[p].results
               IN  IF ServiceOf(p) = "sql"
                   THEN /\ Len(res) = Len(req[p].ipRules)
                        /\ \A i \in DOMAIN res : res[i].ip = req[p].ipRules[i]
                   ELSE Len(res) = 1 /\ res[1].kind = "aggregate"

(***************************************************************************)
(* C10.  In a range-backend batch a failure local to one item (a malformed *)
(* token, a non-2xx answer to its PUT or DELETE) never aborts the batch:   *)
(* once the rules were fetched, the invocation returns the results, every  *)
(* input has an entry in them, and every input of an Add had its PUT       *)
(* issued.  A malformed CIDR token makes parse_ip_range raise (line 30);   *)
(* the exception leaves the loop and the invocation answers 500.           *)
(***************************************************************************)
C10_ItemFailureDoesNotAbort ==
    \A p \in Procs :
        (/\ Done(p)
         /\ ServiceOf(p) = "sql"
         /\ ActionOf(p) \in {"add", "remove"}
         /\ CallsOf(p, "GET") # <<>>
         /\ NoErrorEntry(results[p]))
            => /\ response[p].status_code = 200
               /\ \A i \in DOMAIN req[p].ipRules :
                     /\ \E k \in DOMAIN response[p].results :
                           response[p].results[k].ip = req[p].ipRules[i]
                     /\ ActionOf(p) = "add"
                           => \E k \in DOMAIN calls[p] :
                                 calls[p][k].op = "PUT" /\ calls[p][k].item = i

(***************************************************************************)
(* C11.  Two overlapping list-backend Adds are not isolated.  Whenever     *)
(* both read the list before either wrote it and both writes succeeded,    *)
(* the remote list is the list one of them wrote, and every value the      *)
(* other one added (a value neither on the fetched list nor among the      *)
(* writer's own) is missing from it.                                       *)
(***************************************************************************)
PatchBody(p) == CallsOf(p, "PATCH")[1].body

Expanded(p) == Members(expanded_ips(req[p].ipRules).ips)

\* both invocations fetched the same list, and each wrote a list that
\* differs from it: neither GET can have followed the other's PATCH
BothReadBeforeEitherWrote ==
    /\ \A p \in Procs :
          /\ ServiceOf(p) = "storage" /\ ActionOf(p) = "add" /\ Done(p)
          /\ results[p] = <<AggregateResult(200)>>
          /\ acls[p] = before[p].acl
          /\ PatchBody(p) # acls[p]
    /\ acls[1] = acls[2]

C11_LostUpdate ==
    BothReadBeforeEitherWrote
        => \E p \in Procs, q \in Procs :
              /\ p # q
              /\ aclRules = PatchBody(p)
              /\ Members(Values(aclRules.ipRules))
                     = Members(Values(acls[p].ipRules)) \cup Expanded(p)
              /\ \A v \in Expanded(q) :
                     v \notin Members(Values(acls[p].ipRules)) \cup Expanded(p)
                         => v \notin Members(Values(aclRules.ipRules))

\* both Adds completed with status 200 and a value one of them added is not
\* on the remote list
C11_Witness ==
    /\ BothReadBeforeEitherWrote
    /\ \E q \in Procs : \E v \in Expanded(q) :
          /\ v \in Members(Values(PatchBody(q).ipRules))
          /\ v \notin Members(Values(acls[q].ipRules))
          /\ v \notin Members(Values(aclRules.ipRules))

(***************************************************************************)
(* C12.  For every valid IPv4 CIDR token, host bits set or not,            *)
(* parse_ip_range returns the network address of the block as start and    *)
(* its broadcast address as end: both are addresses, both agree with the   *)
(* token's address on the prefix bits, the remaining bits are all 0 in     *)
(* start and all 1 in end, and start <= end.  Read off the PUT that Add    *)
(* sends for the token.                                                    *)
(***************************************************************************)
\* bit j (1 = most significant, 32 = least) of address a
Bit(a, j) == (a[((j - 1) \div 8) + 1] \div Pow2(7 - ((j - 1) % 8))) % 2

ValidCidr(token) ==
    LET parts == Split(Strip(token), "/")
    IN  /\ Len(parts) = 2
        /\ ip_address(parts[1]) # AddrError
        /\ AllDigits(parts[2])
        /\ IntUpTo(parts[2], 0, 33) <= 32

CidrAddress(token) == ip_address(Split(Strip(token), "/")[1])

CidrPrefix(token) == IntUpTo(Split(Strip(token), "/")[2], 0, 33)

C12_CidrParsesToItsBlock ==
    \A p \in Procs : \A k \in DOMAIN calls[p] :
        LET c     == calls[p][k]
            token == req[p].ipRules[c.item]
        IN  (c.op = "PUT" /\ ValidCidr(token))
                => LET a == CidrAddress(token)
                       n == CidrPrefix(token)
                       s == ip_address(c.start)
                       e == ip_address(c.end)
                   IN  /\ s # AddrError
                       /\ e # AddrError
                       /\ \A j \in 1..32 :
                             /\ Bit(s, j) = IF j <= n THEN Bit(a, j) ELSE 0
                             /\ Bit(e, j) = IF j <= n THEN Bit(a, j) ELSE 1
                       /\ AddrLE(s, e)

\* Add sent the PUT for 10.0.0.5/24, a token with host bits set, with the
\* endpoints 10.0.0.0 and 10.0.0.255
C12_Witness ==
    \E p \in Procs : \E k \in DOMAIN calls[p] :
        /\ calls[p][k].op = "PUT"
        /\ req[p].ipRules[calls[p][k].item] = TokCidrHost
        /\ calls[p][k].start = StrAddr(<<10, 0, 0, 0>>)
        /\ calls[p][k].end = StrAddr(<<10, 0, 0, 255>>)

(***************************************************************************)
(* C13.  Range-backend Remove, once the rules are fetched, issues for each *)
(* input exactly one DELETE per fetched rule whose trimmed startIpAddress  *)
(* and endIpAddress equal the input's parsed start and end, addressed by   *)
(* that rule's name, and no other DELETE; and a rule that an Add created   *)
(* from a token is sent a DELETE by the later Remove of the same ipRules.  *)
(* An input that follows a token on which parse_ip_range raises is never   *)
(* reached (see C10), so its matching rules get no DELETE.                 *)
(***************************************************************************)
\* the names the DELETEs of invocation p for input i went to, in order
DeleteNamesFor(p, i) ==
    LET ds == SelectSeq(calls[p], LAMBDA c : c.op = "DELETE" /\ c.item = i)
    IN  [k \in DOMAIN ds |-> ds[k].name]

\* the names of the fetched rules that input i matches, in fetched order
MatchNamesFor(p, i) ==
    LET parsed == parse_ip_range(req[p].ipRules[i])
        ms == SelectSeq(existing_rules[p],
                        LAMBDA r : /\ ~parsed.raised
                                   /\ Strip(r.startIpAddress) = Strip(parsed.start)
                                   /\ Strip(r.endIpAddress) = Strip(parsed.end))
    IN  [k \in DOMAIN ms |-> LastSegment(ms[k].name)]

RulesFetched(p) == CallsOf(p, "GET") # <<>> /\ NoErrorEntry(results[p])

C13_RemoveDeletesExactlyTheMatches ==
    \A p \in Procs :
        (ServiceOf(p) = "sql" /\ ActionOf(p) = "remove" /\ Done(p) /\ RulesFetched(p))
            => /\ \A i \in DOMAIN req[p].ipRules :
                     DeleteNamesFor(p, i) = MatchNamesFor(p, i)
               /\ (p = 2 /\ ActionOf(1) = "add")
                     => \A k \in DOMAIN calls[1] :
                           (/\ calls[1][k].op = "PUT"
                            /\ results[1][calls[1][k].item].status = 200)
                               => \E j \in DOMAIN calls[2] :
                                     /\ calls[2][j].op = "DELETE"
                                     /\ calls[2][j].name = calls[1][k].name

(***************************************************************************)
(* C14.  For either backend a write follows only a successful read: an     *)
(* invocation whose GET of the current rules or ACL did not succeed issues *)
(* no PUT, DELETE or PATCH and leaves the remote as it found it.           *)
(* manage_sql_firewall tests the status of its GET (line 48);              *)
(* manage_storage_firewall does not: the error body of a failed GET has no *)
(* "properties", line 93 takes the default networkAcls, and the PATCH of   *)
(* line 137 replaces the account's list by the request's values alone.     *)
(***************************************************************************)
\* the GET of invocation p was issued and did not deliver the remote state
GetFailed(p) ==
    /\ CallsOf(p, "GET") # <<>>
    /\ pc[p] \in {"storage_patch", "done"}
    /\ IF ServiceOf(p) = "sql"
       THEN results[p] = <<ErrorResult("Failed to get existing rules")>>
       ELSE acls[p] # before[p].acl

C14_NoWriteAfterFailedRead ==
    \A p \in Procs :
        GetFailed(p)
            => /\ Ops(p) \cap {"PUT", "DELETE", "PATCH"} = {}
               /\ (\A q \in Procs : q > p => pc[q] = "idle")
                     => sqlRules = before[p].sql /\ aclRules = before[p].acl

====
